---- MODULE Spec2Model ----
(***************************************************************************)
(* Model of baby-log's app.py: the voice endpoint log_baby, the detached   *)
(* job process_log_background it spawns, and the button endpoint           *)
(* log_button.  Handlers and jobs run as interleaved steps; the temp       *)
(* directory, the classification service and the form endpoint are the     *)
(* shared environment.                                                     *)
(***************************************************************************)
EXTENDS Integers, Sequences, FiniteSets, TLC

\* ------------------------------------------------------------------ bounds
NumVoice == 2         \* voice submissions (requests to /log-baby)
NumButton == 2        \* button submissions (requests to /log-button)
MaxTicks == 1         \* seconds the wall clock may advance during a run

\* ------------------------------------------------------- program constants
SecondsPerMinute == 60
SecondsPerDay == 86400

Voice == 1..NumVoice
Button == 1..NumButton

\* Character classes secure_filename tells apart
Whitespace == {" "}
PathSeps == {"/"}
StripChars == {".", "_"}

\* The filenames uploads carry: none, a plain one, and two that differ only in a
\* character secure_filename rewrites.
FileNames == {<<>>, <<"a">>, <<"a", " ", "b">>, <<"a", "_", "b">>}

\* ---------------------------------------------------- werkzeug.secure_filename
\* filename.replace(sep, " ") for os.sep
ReplaceSep(s) == [i \in 1..Len(s) |-> IF s[i] \in PathSeps THEN " " ELSE s[i]]

\* "_".join(filename.split()): whitespace runs at either end vanish, inner runs
\* become one underscore.
RECURSIVE SplitJoinFrom(_, _, _)
SplitJoinFrom(s, i, seenWord) ==
    IF i > Len(s) THEN <<>>
    ELSE IF s[i] \in Whitespace
         THEN LET restHasWord == \E j \in (i + 1)..Len(s) : s[j] \notin Whitespace
                  endsRun == i = Len(s) \/ s[i + 1] \notin Whitespace
              IN  (IF seenWord /\ restHasWord /\ endsRun THEN <<"_">> ELSE <<>>)
                  \o SplitJoinFrom(s, i + 1, seenWord)
         ELSE <<s[i]>> \o SplitJoinFrom(s, i + 1, TRUE)

SplitJoin(s) == SplitJoinFrom(s, 1, FALSE)

\* _filename_ascii_strip_re.sub(""): only [A-Za-z0-9_.-] survive.  A decimal
\* timestamp is one token of digits.
SafeChars == {"a", "b", ".", "_", "-"}
IsDigits(c) == \E n \in 0..(SecondsPerMinute + MaxTicks) : c = ToString(n)
IsAsciiSafe(c) == c \in SafeChars \/ IsDigits(c)

AsciiStrip(s) == SelectSeq(s, IsAsciiSafe)

\* str.strip("._")
RECURSIVE LStrip(_)
LStrip(s) == IF s # <<>> /\ Head(s) \in StripChars THEN LStrip(Tail(s)) ELSE s

RECURSIVE RStrip(_)
RStrip(s) ==
    IF s # <<>> /\ s[Len(s)] \in StripChars THEN RStrip(SubSeq(s, 1, Len(s) - 1)) ELSE s

secure_filename(s) == LStrip(RStrip(AsciiStrip(SplitJoin(ReplaceSep(s)))))

\* f"{int(now.timestamp())}_{file.filename}": the decimal timestamp is one token.
StampedName(ts, fname) == <<ToString(ts), "_">> \o fname

\* os.path.join("/tmp", filename)
JoinTmp(name) == <<"/tmp/">> \o name

SavePath(ts, fname) == JoinTmp(secure_filename(StampedName(ts, fname)))

\* now.strftime("%Y-%m-%d"), now.strftime("%H:%M"): the day, and the hour and
\* minute within it; seconds are dropped.
DateStr(t) == t \div SecondsPerDay
TimeStr(t) == <<(t \div (SecondsPerMinute * SecondsPerMinute)) % 24, (t \div SecondsPerMinute) % SecondsPerMinute>>


\* ------------------------------------------------------------------- state
VARIABLES
    clock,          \* wall-clock time in seconds, read by datetime.now()
    GEMINI_API_KEY, \* module configuration: "set" or "unset"
    fs,             \* the temp directory: set of [path, data]; data is the upload stored
    hpc,            \* log_baby: position of each request's handler
    req,            \* log_baby: request.files of each request
    date_str,       \* log_baby local, passed to the job
    time_str,       \* log_baby local, passed to the job
    save_path,      \* log_baby local, passed to the job as audio_path
    resp,           \* log_baby: the response returned, <<status, payload kind>>
    jpc,            \* process_log_background: position of each job
    audio_bytes,    \* job local: the upload read from audio_path (0: none)
    result,         \* job local: response.parsed
    steps,          \* per job, the calls it has made so far, in order
    access,         \* which file of which upload each handler/job touched
    relayLog,       \* the POSTs issued to GOOGLE_FORM_URL, in order
    bpc,            \* log_button: position of each request's handler
    bdata,          \* log_button: request.json
    bresp           \* log_button: the response returned

voiceVars == <<clock, GEMINI_API_KEY, fs, hpc, req, date_str, time_str, save_path, resp,
               jpc, audio_bytes, result, steps, access>>
buttonVars == <<bpc, bdata, bresp>>
vars == <<voiceVars, relayLog, buttonVars>>

\* ------------------------------------------------------------ the temp dir
Exists(path) == \E f \in fs : f.path = path
DataAt(path) == (CHOOSE f \in fs : f.path = path).data
WriteFile(path, data) == {f \in fs : f.path # path} \cup {[path |-> path, data |-> data]}
RemoveFile(path) == {f \in fs : f.path # path}

\* ---------------------------------------------------------- request inputs
NoFile == [hasFile |-> FALSE, filename |-> <<>>]
Requests == {NoFile} \cup {[hasFile |-> TRUE, filename |-> f] : f \in FileNames}

NoResp == <<0, "none">>

\* dict.get(key, default)
Get(d, key, default) == IF key \in DOMAIN d THEN d[key] ELSE default

\* The classification service's answers: response.parsed is None, or a dict with
\* any subset of the two schema fields.
NoneParsed == [isNone |-> TRUE, dict |-> <<>>]
LogTypes == {"Nappy Change"}
Transcripts == {"changed nappy"}
Dicts ==
    {<<>>}
    \cup {[k \in {"LogType"} |-> l] : l \in LogTypes}
    \cup {[k \in {"Recording Transcript"} |-> t] : t \in Transcripts}
    \cup {[k \in {"LogType", "Recording Transcript"} |-> IF k = "LogType" THEN l ELSE t] :
            l \in LogTypes, t \in Transcripts}
Parsed == {NoneParsed} \cup {[isNone |-> FALSE, dict |-> d] : d \in Dicts}

\* FORM_FIELDS: the four keys of the form data
FormData(src, id, date, time, log_type, transcript, outcome) ==
    [src |-> src, id |-> id, date |-> date, time |-> time,
     log_type |-> log_type, transcript |-> transcript, outcome |-> outcome]

\* requests.post either returns a response (any status) or raises
PostOutcomes == {"2xx", "non2xx", "raise"}

StartClock == SecondsPerMinute - 1

Init ==
    /\ clock = StartClock
    /\ GEMINI_API_KEY \in {"set", "unset"}
    /\ fs = {}
    /\ hpc = [i \in Voice |-> "idle"]
    /\ req = [i \in Voice |-> NoFile]
    /\ date_str = [i \in Voice |-> 0]
    /\ time_str = [i \in Voice |-> <<0, 0>>]
    /\ save_path = [i \in Voice |-> <<>>]
    /\ resp = [i \in Voice |-> NoResp]
    /\ jpc = [i \in Voice |-> "none"]
    /\ audio_bytes = [i \in Voice |-> 0]
    /\ result = [i \in Voice |-> NoneParsed]
    /\ steps = [i \in Voice |-> <<>>]
    /\ access = {}
    /\ relayLog = <<>>
    /\ bpc = [b \in Button |-> "idle"]
    /\ bdata = [b \in Button |-> <<>>]
    /\ bresp = [b \in Button |-> NoResp]

\* ---------------------------------------------------------------- log_baby
\* log_baby without the check of line 174
LogBabyValidateAnyName(i) ==
    /\ hpc[i] = "idle"
    /\ \E r \in Requests :
        /\ req' = [req EXCEPT ![i] = r]
        /\ IF ~r.hasFile
           THEN /\ resp' = [resp EXCEPT ![i] = <<400, "error">>]
                /\ hpc' = [hpc EXCEPT ![i] = "done"]
                /\ UNCHANGED <<date_str, time_str, save_path>>
           ELSE /\ date_str' = [date_str EXCEPT ![i] = DateStr(clock)]
                /\ time_str' = [time_str EXCEPT ![i] = TimeStr(clock)]
                /\ save_path' = [save_path EXCEPT ![i] = SavePath(clock, r.filename)]
                /\ hpc' = [hpc EXCEPT ![i] = "save"]
                /\ UNCHANGED resp
    /\ UNCHANGED <<clock, GEMINI_API_KEY, fs, jpc, audio_bytes, result, steps, access,
                   relayLog, buttonVars>>

\* lines 170-185: validation, timestamps, the temp file's name
LogBabyValidate(i) ==
    /\ hpc[i] = "idle"
    /\ \E r \in Requests :
        /\ req' = [req EXCEPT ![i] = r]
        /\ IF ~r.hasFile \/ r.filename = <<>>
           THEN /\ resp' = [resp EXCEPT ![i] = <<400, "error">>]
                /\ hpc' = [hpc EXCEPT ![i] = "done"]
                /\ UNCHANGED <<date_str, time_str, save_path>>
           ELSE /\ date_str' = [date_str EXCEPT ![i] = DateStr(clock)]
                /\ time_str' = [time_str EXCEPT ![i] = TimeStr(clock)]
                /\ save_path' = [save_path EXCEPT ![i] = SavePath(clock, r.filename)]
                /\ hpc' = [hpc EXCEPT ![i] = "save"]
                /\ UNCHANGED resp
    /\ UNCHANGED <<clock, GEMINI_API_KEY, fs, jpc, audio_bytes, result, steps, access,
                   relayLog, buttonVars>>

\* log_baby going on to start the thread while the file is not written yet
LogBabySaveDeferred(i) ==
    /\ hpc[i] = "save"
    /\ hpc' = [hpc EXCEPT ![i] = "start"]
    /\ UNCHANGED <<clock, GEMINI_API_KEY, fs, req, date_str, time_str, save_path, resp, jpc,
                   audio_bytes, result, steps, access, relayLog, buttonVars>>

\* line 186: file.save(save_path) creates or truncates the file
LogBabySave(i) ==
    /\ hpc[i] = "save"
    /\ fs' = WriteFile(save_path[i], i)
    /\ access' = IF Exists(save_path[i])
                 THEN access \cup {[by |-> i, op |-> "overwrite", data |-> DataAt(save_path[i])]}
                 ELSE access
    /\ hpc' = [hpc EXCEPT ![i] = "start"]
    /\ UNCHANGED <<clock, GEMINI_API_KEY, req, date_str, time_str, save_path, resp, jpc,
                   audio_bytes, result, steps, relayLog, buttonVars>>

\* lines 189-191: the daemon thread is started, not joined
LogBabyStart(i) ==
    /\ hpc[i] = "start"
    /\ jpc' = [jpc EXCEPT ![i] = "read"]
    /\ hpc' = [hpc EXCEPT ![i] = "return"]
    /\ UNCHANGED <<clock, GEMINI_API_KEY, fs, req, date_str, time_str, save_path, resp,
                   audio_bytes, result, steps, access, relayLog, buttonVars>>

\* log_baby joining the thread and reporting the job's outcome
LogBabyReturnJoined(i) ==
    /\ hpc[i] = "return"
    /\ jpc[i] \in {"done", "raised"}
    /\ resp' = [resp EXCEPT ![i] =
                    IF "relay" \in {steps[i][k] : k \in DOMAIN steps[i]}
                    THEN <<200, "success">> ELSE <<500, "error">>]
    /\ hpc' = [hpc EXCEPT ![i] = "done"]
    /\ UNCHANGED <<clock, GEMINI_API_KEY, fs, req, date_str, time_str, save_path, jpc,
                   audio_bytes, result, steps, access, relayLog, buttonVars>>

\* line 193
LogBabyReturn(i) ==
    /\ hpc[i] = "return"
    /\ resp' = [resp EXCEPT ![i] = <<200, "success">>]
    /\ hpc' = [hpc EXCEPT ![i] = "done"]
    /\ UNCHANGED <<clock, GEMINI_API_KEY, fs, req, date_str, time_str, save_path, jpc,
                   audio_bytes, result, steps, access, relayLog, buttonVars>>

\* ------------------------------------------------- process_log_background
Log(i, event) == [steps EXCEPT ![i] = Append(@, event)]
Touch(i, op) == access \cup {[by |-> i, op |-> op, data |-> DataAt(save_path[i])]}

\* lines 41-45: build the client, then open and read audio_path.  The client
\* constructor raises without an API key; open raises when the file is absent.
JobRead(i) ==
    /\ jpc[i] = "read"
    /\ IF GEMINI_API_KEY = "unset"
       THEN /\ steps' = Log(i, "client_failed")
            /\ jpc' = [jpc EXCEPT ![i] = "except"]
            /\ UNCHANGED <<audio_bytes, access>>
       ELSE IF Exists(save_path[i])
       THEN /\ audio_bytes' = [audio_bytes EXCEPT ![i] = DataAt(save_path[i])]
            /\ access' = Touch(i, "read")
            /\ steps' = Log(i, "read")
            /\ jpc' = [jpc EXCEPT ![i] = "classify"]
       ELSE /\ steps' = Log(i, "read_failed")
            /\ jpc' = [jpc EXCEPT ![i] = "except"]
            /\ UNCHANGED <<audio_bytes, access>>
    /\ UNCHANGED <<clock, GEMINI_API_KEY, fs, hpc, req, date_str, time_str, save_path, resp,
                   result, relayLog, buttonVars>>

\* process_log_background going on to the POST with a None result
JobClassifyLenient(i) ==
    /\ jpc[i] = "classify"
    /\ \/ /\ steps' = Log(i, "classify_failed")
          /\ jpc' = [jpc EXCEPT ![i] = "except"]
          /\ UNCHANGED result
       \/ \E p \in Parsed :
            /\ result' = [result EXCEPT ![i] = p]
            /\ IF p.isNone
               THEN /\ steps' = [steps EXCEPT ![i] = @ \o <<"classify", "parse_failed">>]
                    /\ jpc' = [jpc EXCEPT ![i] = "post"]
               ELSE /\ steps' = Log(i, "classify")
                    /\ jpc' = [jpc EXCEPT ![i] = "post"]
    /\ UNCHANGED <<clock, GEMINI_API_KEY, fs, hpc, req, date_str, time_str, save_path, resp,
                   audio_bytes, access, relayLog, buttonVars>>

\* lines 62-88: generate_content raises, or returns; response.parsed is None
\* (result.get raises AttributeError) or a dict
JobClassify(i) ==
    /\ jpc[i] = "classify"
    /\ \/ /\ steps' = Log(i, "classify_failed")
          /\ jpc' = [jpc EXCEPT ![i] = "except"]
          /\ UNCHANGED result
       \/ \E p \in Parsed :
            /\ result' = [result EXCEPT ![i] = p]
            /\ IF p.isNone
               THEN /\ steps' = [steps EXCEPT ![i] = @ \o <<"classify", "parse_failed">>]
                    /\ jpc' = [jpc EXCEPT ![i] = "except"]
               ELSE /\ steps' = Log(i, "classify")
                    /\ jpc' = [jpc EXCEPT ![i] = "post"]
    /\ UNCHANGED <<clock, GEMINI_API_KEY, fs, hpc, req, date_str, time_str, save_path, resp,
                   audio_bytes, access, relayLog, buttonVars>>

\* result.get without the fallback label
detected_category_unlabelled(i) == Get(result[i].dict, "LogType", "")

\* lines 87-88
detected_category(i) == Get(result[i].dict, "LogType", "General Baby Log")
detected_transcript(i) == Get(result[i].dict, "Recording Transcript", "")

\* process_log_background posting in the order the submissions were handled: a
\* job waits until no submission handled earlier still has its POST to make
JobPostInOrder(i) ==
    /\ jpc[i] = "post"
    /\ \A j \in Voice :
        (j # i /\ jpc[j] \in {"read", "classify", "post"}) => save_path[i][2] = save_path[j][2]
    /\ \E o \in PostOutcomes :
        /\ relayLog' = Append(relayLog,
                              FormData("voice", i, date_str[i], time_str[i],
                                       detected_category(i), detected_transcript(i), o))
        /\ IF o = "raise"
           THEN /\ steps' = Log(i, "relay_failed")
                /\ jpc' = [jpc EXCEPT ![i] = "except"]
           ELSE /\ steps' = Log(i, "relay")
                /\ jpc' = [jpc EXCEPT ![i] = "cleanup"]
    /\ UNCHANGED <<clock, GEMINI_API_KEY, fs, hpc, req, date_str, time_str, save_path, resp,
                   audio_bytes, result, access, buttonVars>>

\* lines 93-101: one POST of the form data; a raise goes to the except block
JobPost(i) ==
    /\ jpc[i] = "post"
    /\ \E o \in PostOutcomes :
        /\ relayLog' = Append(relayLog,
                              FormData("voice", i, date_str[i], time_str[i],
                                       detected_category(i), detected_transcript(i), o))
        /\ IF o = "raise"
           THEN /\ steps' = Log(i, "relay_failed")
                /\ jpc' = [jpc EXCEPT ![i] = "except"]
           ELSE /\ steps' = Log(i, "relay")
                /\ jpc' = [jpc EXCEPT ![i] = "cleanup"]
    /\ UNCHANGED <<clock, GEMINI_API_KEY, fs, hpc, req, date_str, time_str, save_path, resp,
                   audio_bytes, result, access, buttonVars>>

\* process_log_background without the cleanup at the end of the try block
JobCleanupCheckSkipped(i) ==
    /\ jpc[i] = "cleanup"
    /\ jpc' = [jpc EXCEPT ![i] = "done"]
    /\ UNCHANGED <<clock, GEMINI_API_KEY, fs, hpc, req, date_str, time_str, save_path, resp,
                   audio_bytes, result, steps, access, relayLog, buttonVars>>

\* line 104: os.path.exists(audio_path) in the try block
JobCleanupCheck(i) ==
    /\ jpc[i] = "cleanup"
    /\ jpc' = [jpc EXCEPT ![i] = IF Exists(save_path[i]) THEN "remove" ELSE "done"]
    /\ UNCHANGED <<clock, GEMINI_API_KEY, fs, hpc, req, date_str, time_str, save_path, resp,
                   audio_bytes, result, steps, access, relayLog, buttonVars>>

\* line 105: os.remove(audio_path) in the try block; FileNotFoundError is
\* caught by the except clause of line 107
JobCleanupRemove(i) ==
    /\ jpc[i] = "remove"
    /\ IF Exists(save_path[i])
       THEN /\ fs' = RemoveFile(save_path[i])
            /\ access' = Touch(i, "delete")
            /\ steps' = Log(i, "delete")
            /\ jpc' = [jpc EXCEPT ![i] = "done"]
       ELSE /\ steps' = Log(i, "delete_failed")
            /\ jpc' = [jpc EXCEPT ![i] = "except"]
            /\ UNCHANGED <<fs, access>>
    /\ UNCHANGED <<clock, GEMINI_API_KEY, hpc, req, date_str, time_str, save_path, resp,
                   audio_bytes, result, relayLog, buttonVars>>

\* lines 108-109: the except block logs, then os.path.exists(audio_path)
JobExceptCheck(i) ==
    /\ jpc[i] = "except"
    /\ jpc' = [jpc EXCEPT ![i] = IF Exists(save_path[i]) THEN "except_remove" ELSE "done"]
    /\ UNCHANGED <<clock, GEMINI_API_KEY, fs, hpc, req, date_str, time_str, save_path, resp,
                   audio_bytes, result, steps, access, relayLog, buttonVars>>

\* line 110: os.remove(audio_path) in the except block; nothing catches what it
\* raises, so the exception leaves the thread's target
JobExceptRemove(i) ==
    /\ jpc[i] = "except_remove"
    /\ IF Exists(save_path[i])
       THEN /\ fs' = RemoveFile(save_path[i])
            /\ access' = Touch(i, "delete")
            /\ steps' = Log(i, "delete")
            /\ jpc' = [jpc EXCEPT ![i] = "done"]
       ELSE /\ steps' = Log(i, "delete_failed")
            /\ jpc' = [jpc EXCEPT ![i] = "raised"]
            /\ UNCHANGED <<fs, access>>
    /\ UNCHANGED <<clock, GEMINI_API_KEY, hpc, req, date_str, time_str, save_path, resp,
                   audio_bytes, result, relayLog, buttonVars>>

\* the wall clock advances
Tick ==
    /\ clock < StartClock + MaxTicks
    /\ clock' = clock + 1
    /\ UNCHANGED <<GEMINI_API_KEY, fs, hpc, req, date_str, time_str, save_path, resp, jpc,
                   audio_bytes, result, steps, access, relayLog, buttonVars>>

\* -------------------------------------------------------------- log_button
\* request.json: None, or a dict with any subset of the keys type and note
Types == {"Nappy Change", ""}
Notes == {"wet", ""}
NoneJson == [isNone |-> TRUE, dict |-> <<>>]
Payloads ==
    {NoneJson}
    \cup {[isNone |-> FALSE, dict |-> d] :
            d \in {<<>>}
                  \cup {[k \in {"type"} |-> t] : t \in Types}
                  \cup {[k \in {"note"} |-> n] : n \in Notes}
                  \cup {[k \in {"type", "note"} |-> IF k = "type" THEN t ELSE n] :
                          t \in Types, n \in Notes}}

\* `note` used as it is, without the `or`
OrFirst(x, y) == x

\* Python's `x or y` on strings
Or(x, y) == IF x = "" THEN y ELSE x

\* log_button treating a non-2xx answer of the form endpoint as a failure
LogButtonStatusChecked(b) ==
    /\ bpc[b] = "idle"
    /\ \E data \in Payloads :
        /\ bdata' = [bdata EXCEPT ![b] = data]
        /\ IF data.isNone \/ data.dict = <<>> \/ "type" \notin DOMAIN data.dict
           THEN /\ bresp' = [bresp EXCEPT ![b] = <<400, "error">>]
                /\ UNCHANGED relayLog
           ELSE \E o \in PostOutcomes :
                LET log_type == data.dict["type"]
                    note == Get(data.dict, "note", "")
                IN  /\ relayLog' = Append(relayLog,
                                          FormData("button", b, DateStr(clock), TimeStr(clock),
                                                   log_type, Or(note, "Manual Button Log"), o))
                    /\ bresp' = [bresp EXCEPT ![b] =
                                    IF o = "2xx" THEN <<200, "success">> ELSE <<500, "error">>]
    /\ bpc' = [bpc EXCEPT ![b] = "done"]
    /\ UNCHANGED voiceVars

\* lines 134-162, the whole handler: it blocks on its one POST
LogButton(b) ==
    /\ bpc[b] = "idle"
    /\ \E data \in Payloads :
        /\ bdata' = [bdata EXCEPT ![b] = data]
        /\ IF data.isNone \/ data.dict = <<>> \/ "type" \notin DOMAIN data.dict
           THEN /\ bresp' = [bresp EXCEPT ![b] = <<400, "error">>]
                /\ UNCHANGED relayLog
           ELSE \E o \in PostOutcomes :
                LET log_type == data.dict["type"]
                    note == Get(data.dict, "note", "")
                IN  /\ relayLog' = Append(relayLog,
                                          FormData("button", b, DateStr(clock), TimeStr(clock),
                                                   log_type, Or(note, "Manual Button Log"), o))
                    /\ bresp' = [bresp EXCEPT ![b] =
                                    IF o = "raise" THEN <<500, "error">> ELSE <<200, "success">>]
    /\ bpc' = [bpc EXCEPT ![b] = "done"]
    /\ UNCHANGED voiceVars

\* ------------------------------------------------------- specifications
VoiceNext ==
    \E i \in Voice :
        \/ LogBabyValidate(i)
        \/ LogBabySave(i)
        \/ LogBabyStart(i)
        \/ LogBabyReturn(i)
        \/ JobRead(i)
        \/ JobClassify(i)
        \/ JobPost(i)
        \/ JobCleanupCheck(i)
        \/ JobCleanupRemove(i)
        \/ JobExceptCheck(i)
        \/ JobExceptRemove(i)

Next == VoiceNext \/ Tick

Spec == Init /\ [][Next]_vars

ButtonNext == (\E b \in Button : LogButton(b)) \/ Tick

SpecButton == Init /\ [][ButtonNext]_vars

\* The steps of the background jobs
JobNext ==
    \E i \in Voice :
        \/ JobRead(i)
        \/ JobClassify(i)
        \/ JobPost(i)
        \/ JobCleanupCheck(i)
        \/ JobCleanupRemove(i)
        \/ JobExceptCheck(i)
        \/ JobExceptRemove(i)

\* Started threads keep being scheduled, and each remote call returns or raises:
\* while some job has a step to take, a job step is eventually taken.  Nothing
\* is assumed about requests arriving or about the handlers.
JobFairness == WF_vars(JobNext)

\* Termination does not depend on the time of day: the clock stands still here.
SpecFair == Init /\ [][VoiceNext]_vars /\ JobFairness

\* ------------------------------------------------------------ properties
Accepted(i) == req[i].hasFile /\ req[i].filename # <<>> /\ hpc[i] # "idle"
Finished(i) == jpc[i] \in {"done", "raised"}
StepSet(i) == {steps[i][k] : k \in DOMAIN steps[i]}
RelaysOf(src, id) == {k \in DOMAIN relayLog : relayLog[k].src = src /\ relayLog[k].id = id}
Ack == <<200, "success">>

\* C1: once a voice upload's background job has finished, no file exists at
\* that job's audio_path, whichever way the job finished.
C1_TempFileGoneAfterJob ==
    \A i \in Voice : Finished(i) => ~Exists(save_path[i])

\* C2: once the file is saved and the thread started, log_baby returns the 200
\* acknowledgment without waiting for the job (its return is enabled in every
\* state of the job), and an accepted upload's response is that 200 whatever
\* the job does.
C2_AckWithoutWaiting ==
    \A i \in Voice :
        /\ hpc[i] = "return" => ENABLED LogBabyReturn(i)
        /\ (hpc[i] = "done" /\ jpc[i] # "none") => resp[i] = Ack

\* C2 witness: one upload acknowledged while its job has not run a step, another
\* acknowledged although its job's classification failed.
C2_Witness ==
    \E i, j \in Voice :
        /\ i # j
        /\ resp[i] = Ack /\ jpc[i] = "read"
        /\ resp[j] = Ack /\ "classify_failed" \in StepSet(j)

\* C3: two voice submissions with distinct original filenames never get the
\* same save_path.
C3_DistinctNamesDistinctPaths ==
    \A i, j \in Voice :
        (i # j /\ Accepted(i) /\ Accepted(j) /\ req[i].filename # req[j].filename)
            => save_path[i] # save_path[j]

\* C4: a request with no file field or with an empty filename gets 400 with an
\* error payload; no temp file is created for it, no job spawned, and no
\* classification or relay call made on its behalf.
C4_RejectedUploadDoesNothing ==
    \A i \in Voice :
        (hpc[i] # "idle" /\ (~req[i].hasFile \/ req[i].filename = <<>>))
            => /\ resp[i] = <<400, "error">>
               /\ hpc[i] = "done"
               /\ jpc[i] = "none"
               /\ steps[i] = <<>>
               /\ save_path[i] = <<>>
               /\ ~\E f \in fs : f.data = i
               /\ ~\E a \in access : a.by = i
               /\ RelaysOf("voice", i) = {}

\* C4 witness: one request without a file and one with an empty filename, both
\* rejected.
C4_Witness ==
    \E i, j \in Voice :
        /\ hpc[i] = "done" /\ ~req[i].hasFile /\ resp[i][1] = 400
        /\ hpc[j] = "done" /\ req[j].hasFile /\ req[j].filename = <<>> /\ resp[j][1] = 400

\* C5, as stated: when the classification result lacks either field, the relay
\* POST carries "General Baby Log" as log_type and "" as transcript.
C5_FallbackBoth ==
    \A k \in DOMAIN relayLog :
        relayLog[k].src = "voice" =>
            LET d == result[relayLog[k].id].dict
            IN  ("LogType" \notin DOMAIN d \/ "Recording Transcript" \notin DOMAIN d)
                    => /\ relayLog[k].log_type = "General Baby Log"
                       /\ relayLog[k].transcript = ""

\* C5, amended: each field falls back on its own.  A result without "LogType"
\* is relayed with log_type "General Baby Log", one without "Recording
\* Transcript" with transcript ""; a field that is present is relayed as
\* returned, also when the other one is missing.
C5_FallbackPerField ==
    \A k \in DOMAIN relayLog :
        relayLog[k].src = "voice" =>
            LET d == result[relayLog[k].id].dict
            IN  /\ relayLog[k].log_type =
                     IF "LogType" \in DOMAIN d THEN d["LogType"] ELSE "General Baby Log"
                /\ relayLog[k].transcript =
                     IF "Recording Transcript" \in DOMAIN d
                     THEN d["Recording Transcript"] ELSE ""

\* C5 witness: a relay POST for a result that has a transcript but no LogType.
C5_Witness ==
    \E k \in DOMAIN relayLog :
        /\ relayLog[k].src = "voice"
        /\ DOMAIN result[relayLog[k].id].dict = {"Recording Transcript"}
        /\ relayLog[k].log_type = "General Baby Log"
        /\ relayLog[k].transcript # ""

HasType(b) == ~bdata[b].isNone /\ "type" \in DOMAIN bdata[b].dict

\* C6: a button submission whose payload has `type` is relayed with that type as
\* log_type, and with the note as transcript, or "Manual Button Log" when the
\* note is absent or empty.
C6_ButtonRelayFields ==
    /\ \A k \in DOMAIN relayLog :
        relayLog[k].src = "button" =>
            LET d == bdata[relayLog[k].id].dict
            IN  /\ HasType(relayLog[k].id)
                /\ relayLog[k].log_type = d["type"]
                /\ relayLog[k].transcript =
                     IF "note" \in DOMAIN d /\ d["note"] # "" THEN d["note"]
                     ELSE "Manual Button Log"
    /\ \A b \in Button : (bpc[b] = "done" /\ HasType(b)) => RelaysOf("button", b) # {}

\* C6 witness: one submission relayed with its note, another without a note
\* relayed with the literal.
C6_Witness ==
    \E k, m \in DOMAIN relayLog :
        /\ relayLog[k].src = "button" /\ relayLog[m].src = "button"
        /\ "note" \notin DOMAIN bdata[relayLog[k].id].dict
        /\ relayLog[k].transcript = "Manual Button Log"
        /\ "note" \in DOMAIN bdata[relayLog[m].id].dict
        /\ relayLog[m].transcript = "wet"

\* C7: a button submission is handled synchronously, with no job and no temp
\* file.  Without `type`: 400 and no relay POST.  Otherwise exactly one relay
\* POST; 200 when it returns, whatever its status, and 500 when it raises.
C7_ButtonSynchronous ==
    /\ fs = {}
    /\ \A i \in Voice : jpc[i] = "none"
    /\ \A b \in Button :
        /\ bpc[b] = "idle" => (RelaysOf("button", b) = {} /\ bresp[b] = NoResp)
        /\ bpc[b] = "done" =>
            IF HasType(b)
            THEN /\ Cardinality(RelaysOf("button", b)) = 1
                 /\ \A k \in RelaysOf("button", b) :
                        bresp[b] = IF relayLog[k].outcome = "raise"
                                   THEN <<500, "error">> ELSE Ack
            ELSE /\ RelaysOf("button", b) = {}
                 /\ bresp[b] = <<400, "error">>

\* C7 witness: a submission answered 200 although the form endpoint answered
\* non-2xx, and one answered 500 because the POST raised.
C7_Witness ==
    \E k, m \in DOMAIN relayLog :
        /\ relayLog[k].src = "button" /\ relayLog[k].outcome = "non2xx"
        /\ bresp[relayLog[k].id] = Ack
        /\ relayLog[m].src = "button" /\ relayLog[m].outcome = "raise"
        /\ bresp[relayLog[m].id][1] = 500

\* C8: no exception escapes a background job, whatever fails and however the
\* jobs interleave.
C8_NoExceptionEscapes ==
    \A i \in Voice : jpc[i] # "raised"

Index(s, e) == {k \in DOMAIN s : s[k] = e}
Precedes(s, a, b) == \A k \in Index(s, b) : \E m \in Index(s, a) : m < k
RelayEvents == {"relay", "relay_failed"}
CleanupEvents == {"delete", "delete_failed"}

\* C9: within a job the order is read, classify, relay, delete.  At most one
\* relay POST per job, and only after a successful read and a successful
\* classification; a failed read is followed by cleanup only; after a failed
\* classification there is no relay POST.
C9_JobStepOrder ==
    \A i \in Voice :
        LET s == steps[i]
            relays == {k \in DOMAIN s : s[k] \in RelayEvents}
        IN  /\ Cardinality(relays) <= 1
            /\ Cardinality(RelaysOf("voice", i)) = Cardinality(relays)
            /\ \A k \in relays :
                /\ SubSeq(s, 1, k - 1) = <<"read", "classify">>
                /\ ~result[i].isNone
            /\ Precedes(s, "read", "classify")
            /\ \A k \in DOMAIN s : \A m \in DOMAIN s :
                (s[k] \in CleanupEvents /\ m > k) => s[m] \in CleanupEvents
            /\ \A k \in Index(s, "read_failed") :
                /\ k = 1
                /\ \A m \in DOMAIN s : m > k => s[m] \in CleanupEvents
                /\ jpc[i] \in {"except", "except_remove", "done", "raised"}
            /\ ({"classify_failed", "parse_failed"} \cap StepSet(i) # {}) => relays = {}

\* C9 witness: one job that ran read, classify, relay, delete, and one whose
\* read failed and that went to cleanup.
C9_Witness ==
    \E i, j \in Voice :
        /\ steps[i] = <<"read", "classify", "relay", "delete">>
        /\ steps[j] = <<"read_failed">> /\ jpc[j] = "done"

\* C10: each temp file is read once, by the job of the submission that wrote
\* it, and deleted by that job; no handler or job reads, overwrites or deletes
\* the file of another submission.
C10_FileTouchedByOwnerOnly ==
    /\ \A a \in access : a.op \in {"read", "delete"} => a.by = a.data
    /\ \A i \in Voice : Cardinality(Index(steps[i], "read")) <= 1
    /\ \A i \in Voice : (Finished(i) /\ "read" \in StepSet(i)) => "delete" \in StepSet(i)

\* C11: under fair scheduling of the jobs, every spawned job eventually ends
\* (by returning or by an escaping exception) with no file at its audio_path;
\* the handler takes no part in it.
C11_JobsTerminate ==
    \A i \in Voice : (jpc[i] = "read") ~> (Finished(i) /\ ~Exists(save_path[i]))

\* C11 witness: a job that ended after its relay with its file gone, while its
\* handler has not returned yet.
C11_Witness ==
    \E i \in Voice :
        /\ jpc[i] = "done" /\ "relay" \in StepSet(i) /\ ~Exists(save_path[i])
        /\ hpc[i] = "return"

\* The second at which log_baby handled submission i: the timestamp token of
\* its save_path
HandledAt(i) == CHOOSE t \in StartClock..(StartClock + MaxTicks) : save_path[i][2] = ToString(t)

\* The date and time of every voice relay POST are those of the second its
\* handler ran in, and its label and transcript those of its own job's result.
RelayFromOwnJob ==
    \A k \in DOMAIN relayLog :
        relayLog[k].src = "voice" =>
            LET i == relayLog[k].id
            IN  /\ relayLog[k].date = DateStr(HandledAt(i))
                /\ relayLog[k].time = TimeStr(HandledAt(i))
                /\ relayLog[k].date = date_str[i] /\ relayLog[k].time = time_str[i]
                /\ relayLog[k].log_type = detected_category(i)
                /\ relayLog[k].transcript = detected_transcript(i)

\* The recording a voice relay POST's label and transcript were made from is
\* the upload of the submission the POST is for.
RelayFromOwnRecording ==
    \A k \in DOMAIN relayLog :
        relayLog[k].src = "voice" => audio_bytes[relayLog[k].id] = relayLog[k].id

\* C12: a job's relay POST carries the date and time its handler derived at
\* request time, and no relay POST carries the date, time, label or transcript
\* of a different submission.
C12_RelayCarriesOwnData == RelayFromOwnJob /\ RelayFromOwnRecording

\* C13: nothing orders the jobs of different submissions.  A job that has a
\* classification call or a relay POST to make can make it in every state,
\* whatever the other jobs have or have not done, so the calls of two jobs
\* interleave and the later submission's POST can come first.
C13_NoOrderAcrossJobs ==
    \A i \in Voice :
        /\ jpc[i] = "read" => ENABLED JobRead(i)
        /\ jpc[i] = "classify" => ENABLED JobClassify(i)
        /\ jpc[i] = "post" => ENABLED JobPost(i)

\* C13 witness: the POST of a submission handled in a later second was issued
\* first, between the classification call and the POST of the earlier one.
C13_Witness ==
    \E i, j \in Voice :
        /\ Accepted(i) /\ Accepted(j) /\ HandledAt(i) < HandledAt(j)
        /\ RelaysOf("voice", j) # {}
        /\ jpc[i] = "post"
        /\ "classify" \in StepSet(i)

CallFailures == {"client_failed", "classify_failed", "parse_failed", "relay_failed"}

\* C14: when no classification call and no relay POST fails, every acknowledged
\* voice submission results in exactly one relay POST: never more than one, and
\* one once its job has ended.
C14_ExactlyOneRelay ==
    \A i \in Voice :
        /\ Cardinality(RelaysOf("voice", i)) <= 1
        /\ (resp[i] = Ack /\ Finished(i) /\ \A j \in Voice : StepSet(j) \cap CallFailures = {})
              => Cardinality(RelaysOf("voice", i)) = 1

\* Another job with the same audio_path has deleted a file there
DeletedByOther(i) ==
    \E j \in Voice : j # i /\ save_path[j] = save_path[i] /\ "delete" \in StepSet(j)

\* C15: the temp file is written before the thread is started, so a job exists
\* only once its handler has saved the file, its read finds the file unless
\* another job removed it, and a failed read means another job removed it.
C15_SavedBeforeStart ==
    \A i \in Voice :
        /\ jpc[i] # "none" => hpc[i] \in {"return", "done"}
        /\ (jpc[i] = "read" /\ ~DeletedByOther(i)) => Exists(save_path[i])
        /\ "read_failed" \in StepSet(i) => DeletedByOther(i)

\* C15 witness: a job whose read failed because the other job had deleted the
\* file its handler had saved, and which has not cleaned up yet.
C15_Witness ==
    \E i \in Voice :
        /\ "read_failed" \in StepSet(i) /\ jpc[i] = "except"
        /\ \E a \in access : a.by # i /\ a.op = "delete"

====
